---- MODULE Spec2Model ----
(***************************************************************************)
(* DresGuardian (src/dresguardian.py): the moderation and policy state of  *)
(* a group-chat bot.  The bot is one asyncio process; every inbound update *)
(* runs as its own task (concurrent_updates(True)), and a task gives up    *)
(* control only at an await that really suspends (a transport call).       *)
(* Each action below is one such uninterrupted segment of one handler.     *)
(***************************************************************************)
EXTENDS Integers, Sequences, FiniteSets, TLC

(* ------------------------------ bounds -------------------------------- *)
MaxGateTasks == 3     \* updates handled in one run of SpecGate
MaxOwnerTasks == 3    \* updates handled in one run of SpecOwner
MaxWarnTasks == 3     \* updates handled in one run of SpecWarn
MaxWelcomeTasks == 3  \* updates handled in one run of SpecWelcome
MaxWordTasks == 2     \* updates handled in one run of SpecWords
MaxAdminTasks == 2    \* updates handled in one run of SpecAdmin
MaxLedgerTasks == 3   \* updates handled in one run of SpecLedger
MaxEscalateTasks == 4 \* /warn commands handled in one run of SpecEscalate
MaxTargetTasks == 2   \* /warns commands handled in one run of SpecTarget
MaxLoopTasks == 3     \* updates handled in one run of SpecLoop
MaxGuardTasks == 3    \* updates handled in one run of SpecGuard
MaxListTasks == 3     \* updates handled in one run of SpecWordList
MaxStoreTasks == 2    \* updates handled in one run of SpecStore
MaxTime == 3          \* last clock reading; one tick is half a second

(* ------------------------- program constants -------------------------- *)
OWNER_ID == 1
COOLDOWN == 3         \* 1.5 s, in ticks of half a second
WarnLimitFour == 3 + 1 \* (an escalation that waits for a fourth warn)
WARN_LIMIT == 3       \* "if count >= 3"
None == 0             \* "return None": no user (user ids are positive)

Users == {1, 2}
Chats == {5, 100}
Fields == {"welcomes", "blacklist", "banned_words", "warns"}

(* ------------------------------ helpers ------------------------------- *)
Range(s) == {s[i] : i \in DOMAIN s}

\* f with key k bound to v (dict item assignment)
Put(f, k, v) == [x \in (DOMAIN f) \cup {k} |-> IF x = k THEN v ELSE f[x]]

\* f without key k (del / pop(k, None))
Del(f, k) == [x \in (DOMAIN f) \ {k} |-> f[x]]

\* dict.get(k, d)
Get(f, k, d) == IF k \in DOMAIN f THEN f[k] ELSE d

EmptyMap == [x \in {} |-> 0]

\* the orders list(a_set) can produce
ListsOf(S) == {q \in [1..Cardinality(S) -> S] : Range(q) = S}

\* str.startswith on strings kept as sequences of characters
StartsWith(s, p) == Len(s) >= Len(p) /\ SubSeq(s, 1, Len(p)) = p

(* ------------------------------ storage ------------------------------- *)
\* the default Document of load_store
DefaultStore ==
  [welcomes |-> EmptyMap, blacklist |-> <<>>, banned_words |-> EmptyMap,
   warns |-> EmptyMap]

\* The snapshot file: missing, unreadable/corrupt, or a JSON object holding
\* some of the four fields.  json.dump followed by json.load gives back the
\* same object here: every key of the Document is a string already and the
\* values are integers, strings and lists.
NoFile == [state |-> "missing", data |-> EmptyMap]
Corrupt == [state |-> "corrupt", data |-> EmptyMap]
Snapshot(S) == [state |-> "ok", data |-> S]

\* (a load that completes nothing: a snapshot that lacks a field is given up)
LoadWholeOnly(file) ==
  IF file.state = "ok" /\ DOMAIN file.data = Fields THEN file.data
                                                     ELSE DefaultStore

\* load_store(): the snapshot with the missing fields defaulted, or the
\* default Document when there is no readable snapshot
load_store(file) ==
  IF file.state = "ok"
    THEN [k \in Fields |-> IF k \in DOMAIN file.data THEN file.data[k]
                                                   ELSE DefaultStore[k]]
    ELSE DefaultStore

\* the snapshots a process may find at start
InitialFiles == {NoFile, Snapshot([x \in {"blacklist"} |-> <<2, 2>>])}


(* ------------------------------- state -------------------------------- *)
VARIABLES
  STORE,             \* the Document (module global STORE)
  GLOBAL_BLACKLIST,  \* the in-memory set of blacklisted user ids
  disk,              \* the snapshot file STORE_FILE
  saveFailed,        \* whether the latest save_store() failed to write
  last_used,         \* can_use_ai.last_used: user id -> time of the grant
  locks,             \* the user ids that have a Lock in the defaultdict
  held,              \* the user ids whose Lock is held
  now,               \* the latest reading of the clock (datetime.now())
  h,                 \* the handler tasks, in the order they were started
  ledger             \* history: the operations on STORE["warns"], in order

vars == <<STORE, GLOBAL_BLACKLIST, disk, saveFailed, last_used, locks, held,
          now, h, ledger>>

storeVars == <<STORE, GLOBAL_BLACKLIST, disk, saveFailed>>
gateVars == <<last_used, locks, held, now>>
otherVars == <<last_used, locks, held, now, ledger>>

(* --------------------------- handler tasks ---------------------------- *)
\* One handler task: the update it was started for (kind, chat, user, reply,
\* arg, members), its position (pc: the await it is suspended at, or done /
\* raised), its locals (target, count, cfg, idx), and a record of what it has
\* asked of the gate, the AI backend and the transport (matched: the message
\* came from a user, not a bot, and its text held a banned word of its chat
\* when the update was taken; denied: is_admin answered False; calls: the
\* ban, unban and restrict calls it has made).
NoCfg == [text |-> "", media |-> "", type |-> "", link |-> <<>>]

NewTask(kind, chat, user) ==
  [kind |-> kind, pc |-> "start", chat |-> chat, user |-> user,
   reply |-> None, arg |-> <<>>, members |-> <<>>,
   target |-> None, count |-> 0, cfg |-> NoCfg, live |-> FALSE, idx |-> 0,
   blAtStart |-> user \in GLOBAL_BLACKLIST,
   gate |-> "none", gateT |-> 0,
   aiCalled |-> FALSE, mutes |-> 0, sent |-> {},
   matched |-> FALSE, deleted |-> FALSE, denied |-> FALSE, calls |-> <<>>]

\* h with task i set to r (i = Len(h) + 1 starts a new task)
SetTask(i, r) ==
  [j \in 1..(IF i > Len(h) THEN i ELSE Len(h)) |-> IF j = i THEN r ELSE h[j]]

\* a new update can be taken while fewer than max have been
CanStart(max) == Len(h) < max

Terminal(pc) == pc \in {"done", "raised"}

(* ------------------------------ AI gate ------------------------------- *)
\* datetime.now(): a reading t of the clock, not before the reading before it
Clock(t) == t \in now..MaxTime

\* (a gate that never looks at the last grant)
EligibleAlways(u, t) == TRUE

\* can_use_ai, the test at time t: no grant recorded, or the cooldown has
\* elapsed since the recorded one
Eligible(u, t) ==
  u \notin DOMAIN last_used \/ t - last_used[u] >= COOLDOWN

\* (a gate that stamps the user on a denied call too)
StampEveryCall(u, ok, t) == Put(last_used, u, t)

\* can_use_ai, the update: a grant stamps the user with the time read
Stamp(u, ok, t) == IF ok THEN Put(last_used, u, t) ELSE last_used

\* async with locks[user_id], line 140, on entry: the Lock of u is taken
AcquireLock(H, u) == H \cup {u}

\* (a with-block that gives the Lock back only when the answer is True)
ReleaseOnGrant(H, u, ok) == IF ok THEN H \ {u} ELSE H

\* async with locks[user_id], on the way out, by either return
ReleaseLock(H, u, ok) == H \ {u}

\* can_use_ai(u) reading the clock as t and returning ok: the Lock of u is
\* created on first use, taken (the task would wait while another holds it),
\* and released on the way out; nothing suspends while it is held.
can_use_ai(u, ok, t) ==
  /\ u \notin held
  /\ Clock(t)
  /\ now' = t
  /\ ok = Eligible(u, t)
  /\ locks' = locks \cup {u}
  /\ last_used' = Stamp(u, ok, t)
  /\ held' = ReleaseLock(AcquireLock(held, u), u, ok)

\* the task record after its call of can_use_ai: what it returned, and when
Gated(r, ok, t) ==
  [r EXCEPT !.gate = IF ok THEN "granted" ELSE "denied", !.gateT = t]

(* ------------------------- saving the Document ------------------------ *)
\* (a save_store that leaves the snapshot file as it is)
SaveNothing(S) ==
  /\ disk' = disk
  /\ saveFailed' = FALSE

\* save_store() with the Document S: the whole snapshot is rewritten; a
\* failed write (caught and logged) leaves the old file or a truncated one.
save_store(S) ==
  \/ /\ disk' = Snapshot(S)
     /\ saveFailed' = FALSE
  \/ /\ disk' \in {disk, Corrupt}
     /\ saveFailed' = TRUE

\* what get_chat_member gives for the invoker of a command: a member with a
\* status, or an exception
AdminLookups == {"creator", "administrator", "member", "left", "raised"}

\* is_admin(), lines 151-156, from the outcome of its lookup
is_admin(lookup) == lookup \in {"administrator", "creator"}

\* the answers of is_admin
IsAdmin == {is_admin(a) : a \in AdminLookups}

\* is_globally_blacklisted(user_id)
is_globally_blacklisted(u) == u \in GLOBAL_BLACKLIST

(* ----------------------------- /ask, mention -------------------------- *)
\* the arguments of /ask: none, or a question
AskArgs == {<<>>, <<"q">>}

\* (/ask consulting the gate before the blacklist)
AskGateFirst(max) ==
  /\ CanStart(max)
  /\ \E u \in Users, a \in AskArgs, ok \in BOOLEAN, t \in 0..MaxTime :
       /\ can_use_ai(u, ok, t)
       /\ h' = SetTask(Len(h) + 1,
                 [Gated(NewTask("ask", 5, u), ok, t) EXCEPT !.pc =
                    IF ok /\ ~is_globally_blacklisted(u) /\ a # <<>>
                      THEN "typing" ELSE "done"])
       /\ UNCHANGED <<storeVars, ledger>>

\* ask(), lines 261-272, up to its first suspending await
AskStart(max) ==
  /\ CanStart(max)
  /\ \E u \in Users, a \in AskArgs :
       LET r == [NewTask("ask", 5, u) EXCEPT !.arg = a]
           i == Len(h) + 1
       IN IF is_globally_blacklisted(u)
            THEN /\ h' = SetTask(i, [r EXCEPT !.pc = "done", !.arg = <<>>])
                 /\ UNCHANGED <<storeVars, otherVars>>
            ELSE \E ok \in BOOLEAN, t \in 0..MaxTime :
                   /\ can_use_ai(u, ok, t)
                   /\ h' = SetTask(i, [Gated(r, ok, t) EXCEPT !.arg = <<>>,
                             !.pc = IF ok /\ a # <<>> THEN "typing"
                                                      ELSE "done"])
                   /\ UNCHANGED <<storeVars, ledger>>

\* The texts of a message that is no command, and what lines 283-288 make of
\* each: whether it addresses the bot ("@dresguardian" somewhere in it, or a
\* start with "dresguardian", "hey dres" or "yo dres", compared in lower
\* case), and whether a query is left once "@dresguardian" is taken out.
Texts == {"hello all", "@DresGuardian", "hey dres what is up"}
Addresses(text) == text \in {"@DresGuardian", "hey dres what is up"}
HasQuery(text) == text \in {"hello all", "hey dres what is up"}

\* the text messages: of a user, or of a bot
Messages ==
  {[user |-> 2, text |-> t, bot |-> FALSE] : t \in Texts}
    \cup {[user |-> 1, text |-> "hey dres what is up", bot |-> FALSE],
          [user |-> 2, text |-> "hello all", bot |-> TRUE]}

\* mention_ai(), lines 277-289, up to its first suspending await, as task i
\* with record r for the message m
mention_ai(i, r, m) ==
  IF m.bot \/ is_globally_blacklisted(m.user)
    THEN /\ h' = SetTask(i, [r EXCEPT !.pc = "done"])
         /\ UNCHANGED <<storeVars, otherVars>>
    ELSE \E ok \in BOOLEAN, t \in 0..MaxTime :
           /\ can_use_ai(m.user, ok, t)
           /\ h' = SetTask(i, [Gated(r, ok, t) EXCEPT !.pc =
                     IF ok /\ Addresses(m.text) /\ HasQuery(m.text)
                       THEN "typing" ELSE "done"])
           /\ UNCHANGED <<storeVars, ledger>>

\* a text message of chat 5 that is not a command is handled by mention_ai
MentionStart(max) ==
  /\ CanStart(max)
  /\ \E m \in Messages :
       mention_ai(Len(h) + 1, NewTask("mention", 5, m.user), m)

\* ask() lines 272-274 and mention_ai() lines 289-291: reply_chat_action
\* returns, call_ai runs (a blocking call: the task does not suspend in it),
\* and the answer is sent; reply_chat_action may raise instead.
AiAnswer ==
  \E i \in DOMAIN h :
    /\ h[i].pc = "typing"
    /\ \E sentOk \in BOOLEAN :
         h' = SetTask(i, IF sentOk
                           THEN [h[i] EXCEPT !.pc = "done", !.aiCalled = TRUE]
                           ELSE [h[i] EXCEPT !.pc = "raised"])
    /\ UNCHANGED <<storeVars, otherVars>>

\* The same in two steps.  call_ai (120-133) is a plain function that calls
\* the synchronous client and returns when the backend has answered; ask and
\* mention_ai call it without await, on the thread of the event loop.  From
\* the return of reply_chat_action to the return of call_ai the task is
\* inside the backend call (pc "in_ai") and has not given up control.
AiBegin ==
  \E i \in DOMAIN h :
    /\ h[i].pc = "typing"
    /\ \E sentOk \in BOOLEAN :
         h' = SetTask(i, [h[i] EXCEPT !.pc = IF sentOk THEN "in_ai"
                                                       ELSE "raised"])
    /\ UNCHANGED <<storeVars, otherVars>>

\* the backend has answered (or failed: call_ai then returns its excuse) and
\* the answer is sent
AiReturn ==
  \E i \in DOMAIN h :
    /\ h[i].pc = "in_ai"
    /\ h' = SetTask(i, [h[i] EXCEPT !.pc = "done", !.aiCalled = TRUE])
    /\ UNCHANGED <<storeVars, otherVars>>

\* the event loop runs one callback at a time: another task is resumed, or a
\* new update taken, only when no task is in the middle of a segment
LoopFree == \A i \in DOMAIN h : h[i].pc # "in_ai"

(* -------------------------- target resolution ------------------------ *)
\* int(arg): the number a string of decimal digits denotes, or -1 where
\* int() raises ValueError
DigitOf(c) ==
  CASE c = "0" -> 0 [] c = "1" -> 1 [] c = "2" -> 2 [] c = "3" -> 3
    [] c = "4" -> 4 [] c = "5" -> 5 [] c = "6" -> 6 [] c = "7" -> 7
    [] c = "8" -> 8 [] c = "9" -> 9 [] OTHER -> 0 - 1

RECURSIVE ParseInt(_)
ParseInt(s) ==
  IF s = <<>> THEN 0 - 1
  ELSE IF DigitOf(s[Len(s)]) < 0 THEN 0 - 1
  ELSE IF Len(s) = 1 THEN DigitOf(s[1])
  ELSE LET hi == ParseInt(SubSeq(s, 1, Len(s) - 1))
       IN IF hi < 0 THEN 0 - 1 ELSE 10 * hi + DigitOf(s[Len(s)])

\* the first argument of a command that names a user: none, the handle of
\* user 2, the id of user 2, or a word that is neither
TargetArgs == {<<>>, <<"@", "b">>, <<"2">>, <<"x">>}

\* whom the transport returns for a handle it resolves
HandleOwner(handle) == 2

\* what a command may carry: a reply to a message of some user (and then its
\* argument is not looked at), or a first argument
ReplyInputs == {[reply |-> u, arg |-> <<>>] : u \in Users}
TargetInputs ==
  ReplyInputs \cup {[reply |-> None, arg |-> a] : a \in TargetArgs}

\* the task record once its target is resolved (reply and arg are dead)
Resolved(r, target) ==
  [r EXCEPT !.target = target, !.reply = None, !.arg = <<>>]

\* (a resolver that looks at the argument before the reply)
GetTargetArgFirst(r) ==
  IF r.arg # <<>>
    THEN IF StartsWith(r.arg, <<"@">>)
           THEN [wait |-> "lookup_handle", user |-> None]
           ELSE IF ParseInt(r.arg) >= 0
                  THEN [wait |-> "lookup_id", user |-> None]
                  ELSE [wait |-> "", user |-> r.reply]
    ELSE [wait |-> "", user |-> r.reply]

\* get_target_user() up to its first suspending await: the await it suspends
\* at ("" when it returns without suspending) and the user it then returns
get_target_user(r) ==
  IF r.reply # None THEN [wait |-> "", user |-> r.reply]
  ELSE IF r.arg # <<>>
    THEN IF StartsWith(r.arg, <<"@">>)
           THEN [wait |-> "lookup_handle", user |-> None]
           ELSE IF ParseInt(r.arg) >= 0
                  THEN [wait |-> "lookup_id", user |-> None]
                  ELSE [wait |-> "", user |-> None]
    ELSE [wait |-> "", user |-> None]

\* get_target_user() from the await it was suspended at: get_chat_member
\* returned a member (found) or raised.  After a failed handle lookup int(arg)
\* raises on the "@", so the result is None.
Looked(r, found) ==
  IF ~found THEN None
  ELSE IF r.pc = "lookup_handle" THEN HandleOwner(r.arg)
  ELSE ParseInt(r.arg)

Looking(r) == r.pc \in {"lookup_handle", "lookup_id"}

(* --------------------------- owner commands --------------------------- *)
\* (/blacklist adding to the set without rewriting the Document's list)
BlacklistNoMirror(i, r, target) ==
  /\ h' = SetTask(i, [Resolved(r, target) EXCEPT !.pc = "done"])
  /\ GLOBAL_BLACKLIST' =
       IF target # None THEN GLOBAL_BLACKLIST \cup {target}
                        ELSE GLOBAL_BLACKLIST
  /\ UNCHANGED <<STORE, disk, saveFailed, otherVars>>

\* blacklist(), lines 538-547, from the resolved target to the reply
BlacklistBody(i, r, target) ==
  /\ h' = SetTask(i, [Resolved(r, target) EXCEPT !.pc = "done"])
  /\ IF target # None /\ target \notin GLOBAL_BLACKLIST
       THEN /\ GLOBAL_BLACKLIST' = GLOBAL_BLACKLIST \cup {target}
            /\ \E lst \in ListsOf(GLOBAL_BLACKLIST \cup {target}) :
                 /\ STORE' = [STORE EXCEPT !.blacklist = lst]
                 /\ save_store(STORE')
       ELSE UNCHANGED storeVars
  /\ UNCHANGED otherVars

\* unblacklist(), lines 553-557, from the resolved target on
UnblacklistBody(i, r, target) ==
  IF target # None /\ target \in GLOBAL_BLACKLIST
    THEN /\ h' = SetTask(i, [Resolved(r, target) EXCEPT !.pc = "done"])
         /\ GLOBAL_BLACKLIST' = GLOBAL_BLACKLIST \ {target}
         /\ \E lst \in ListsOf(GLOBAL_BLACKLIST \ {target}) :
              /\ STORE' = [STORE EXCEPT !.blacklist = lst]
              /\ save_store(STORE')
         /\ UNCHANGED otherVars
    ELSE /\ h' = SetTask(i, [Resolved(r, target) EXCEPT !.pc = "done"])
         /\ UNCHANGED <<storeVars, otherVars>>

\* (/blacklist without the test of the invoker against OWNER_ID)
BlacklistAnyone(max, inputs) ==
  /\ CanStart(max)
  /\ \E u \in Users, in \in inputs :
       LET r == [NewTask("blacklist", 5, u) EXCEPT !.reply = in.reply,
                                                   !.arg = in.arg]
           i == Len(h) + 1
           t == get_target_user(r)
       IN IF t.wait # ""
            THEN /\ h' = SetTask(i, [r EXCEPT !.pc = t.wait])
                 /\ UNCHANGED <<storeVars, otherVars>>
            ELSE BlacklistBody(i, r, t.user)

\* blacklist(), lines 535-537: the owner test and the start of the resolution
BlacklistStart(max, inputs) ==
  /\ CanStart(max)
  /\ \E u \in Users, in \in inputs :
       LET r == [NewTask("blacklist", 5, u) EXCEPT !.reply = in.reply,
                                                   !.arg = in.arg]
           i == Len(h) + 1
           t == get_target_user(r)
       IN IF u # OWNER_ID
            THEN /\ in.reply = 2   \* one command of a stranger stands for all
                 /\ h' = SetTask(i, [Resolved(r, None) EXCEPT !.pc = "done"])
                 /\ UNCHANGED <<storeVars, otherVars>>
            ELSE IF t.wait # ""
              THEN /\ h' = SetTask(i, [r EXCEPT !.pc = t.wait])
                   /\ UNCHANGED <<storeVars, otherVars>>
              ELSE BlacklistBody(i, r, t.user)

\* blacklist() resumed when the lookup of its target ends
BlacklistLookup ==
  \E i \in DOMAIN h, found \in BOOLEAN :
    /\ h[i].kind = "blacklist" /\ Looking(h[i])
    /\ BlacklistBody(i, h[i], Looked(h[i], found))

\* unblacklist(), lines 550-552
UnblacklistStart(max, inputs) ==
  /\ CanStart(max)
  /\ \E u \in Users, in \in inputs :
       LET r == [NewTask("unblacklist", 5, u) EXCEPT !.reply = in.reply,
                                                     !.arg = in.arg]
           i == Len(h) + 1
           t == get_target_user(r)
       IN IF u # OWNER_ID
            THEN /\ in.reply = 2   \* one command of a stranger stands for all
                 /\ h' = SetTask(i, [Resolved(r, None) EXCEPT !.pc = "done"])
                 /\ UNCHANGED <<storeVars, otherVars>>
            ELSE IF t.wait # ""
              THEN /\ h' = SetTask(i, [r EXCEPT !.pc = t.wait])
                   /\ UNCHANGED <<storeVars, otherVars>>
              ELSE UnblacklistBody(i, r, t.user)

\* unblacklist() resumed when the lookup of its target ends
UnblacklistLookup ==
  \E i \in DOMAIN h, found \in BOOLEAN :
    /\ h[i].kind = "unblacklist" /\ Looking(h[i])
    /\ UnblacklistBody(i, h[i], Looked(h[i], found))

(* ------------------------------ warn ledger --------------------------- *)
\* the key f"{chat_id}:{user_id}" of STORE["warns"]: the pair it is built
\* from (two pairs of integers never format to the same string)
WarnKey(chat, user) == <<chat, user>>

\* get_warn_count: the count stored under key k of the mapping W, 0 if none
get_warn_count(W, k) == Get(W, k, 0)

\* add_warn: the mapping W with the count of key k one higher
add_warn(W, k) == Put(W, k, get_warn_count(W, k) + 1)

\* (remove_warn counting down whether or not there is an entry)
RemoveWarnBelowZero(W, k) ==
  IF get_warn_count(W, k) - 1 = 0 THEN Del(W, k)
  ELSE Put(W, k, get_warn_count(W, k) - 1)

\* (remove_warn keeping an entry whose count has dropped to 0)
RemoveWarnKeepZero(W, k) == IF k \in DOMAIN W THEN Put(W, k, W[k] - 1) ELSE W

\* remove_warn: the count of key k one lower, the entry deleted at 0 or
\* below; a mapping without key k is left as it is
remove_warn(W, k) ==
  IF k \in DOMAIN W
    THEN IF W[k] - 1 <= 0 THEN Del(W, k) ELSE Put(W, k, W[k] - 1)
    ELSE W

\* the record of one operation on the warns: its kind, the key, the task, the
\* count read before and after, whether the entry existed before and exists
\* after, and whether every other entry is as it was
Entry(op, k, i, W, W2) ==
  [op |-> op, key |-> k, task |-> i,
   before |-> get_warn_count(W, k), after |-> get_warn_count(W2, k),
   had |-> k \in DOMAIN W, present |-> k \in DOMAIN W2,
   frame |-> Del(W2, k) = Del(W, k)]

\* the commands of SpecWarn: replying to user 2, or naming user 2 by id (the
\* lookup may fail, and the command then has no target)
WarnInputs == {[reply |-> 2, arg |-> <<>>], [reply |-> None, arg |-> <<"2">>]}

\* warn(), lines 298-302, from the resolved target to the first reply
WarnBody(i, r, target) ==
  IF target = None
    THEN /\ h' = SetTask(i, [Resolved(r, target) EXCEPT !.pc = "done"])
         /\ UNCHANGED <<storeVars, otherVars>>
    ELSE LET k == WarnKey(r.chat, target)
             W == add_warn(STORE.warns, k)
         IN /\ STORE' = [STORE EXCEPT !.warns = W]
            /\ save_store(STORE')
            /\ h' = SetTask(i, [Resolved(r, target) EXCEPT
                                  !.pc = "warned", !.count = W[k]])
            /\ ledger' = Append(ledger, Entry("add", k, i, STORE.warns, W))
            /\ UNCHANGED <<GLOBAL_BLACKLIST, gateVars>>

\* warn(), lines 295-297: is_admin has answered (admin is false too when the
\* lookup raised); nothing is read or written before that answer, so the
\* task is taken up here
WarnStart(max, chats, inputs) ==
  /\ CanStart(max)
  /\ \E c \in chats, in \in inputs, admin \in IsAdmin :
       LET r == [NewTask("warn", c, 1) EXCEPT !.reply = in.reply,
                                              !.arg = in.arg]
           i == Len(h) + 1
           t == get_target_user(r)
       IN IF ~admin
            THEN /\ in.reply = 2   \* one command of a stranger stands for all
                 /\ h' = SetTask(i, [Resolved(r, None) EXCEPT
                                       !.pc = "done", !.denied = ~admin])
                 /\ UNCHANGED <<storeVars, otherVars>>
            ELSE IF t.wait # ""
              THEN /\ h' = SetTask(i, [r EXCEPT !.pc = t.wait])
                   /\ UNCHANGED <<storeVars, otherVars>>
              ELSE WarnBody(i, r, t.user)

\* warn() resumed when the lookup of its target ends
WarnLookup ==
  \E i \in DOMAIN h, found \in BOOLEAN :
    /\ h[i].kind = "warn" /\ Looking(h[i])
    /\ WarnBody(i, h[i], Looked(h[i], found))

\* warn(), lines 302-305: the reply "Warned ..." returns or raises; at the
\* limit the one-hour mute is asked of the transport
WarnReplied ==
  \E i \in DOMAIN h, sentOk \in BOOLEAN :
    /\ h[i].kind = "warn" /\ h[i].pc = "warned"
    /\ h' = SetTask(i,
              IF ~sentOk THEN [h[i] EXCEPT !.pc = "raised"]
              ELSE IF h[i].count >= WARN_LIMIT
                THEN [h[i] EXCEPT !.pc = "muting", !.mutes = @ + 1]
                ELSE [h[i] EXCEPT !.pc = "done"])
    /\ UNCHANGED <<storeVars, otherVars>>

\* warn(), lines 305-306: restrict_chat_member returns or raises; the reply
\* "auto-muted" is sent
WarnMuted ==
  \E i \in DOMAIN h, muteOk \in BOOLEAN :
    /\ h[i].kind = "warn" /\ h[i].pc = "muting"
    /\ h' = SetTask(i, [h[i] EXCEPT !.pc = IF muteOk THEN "muted"
                                                      ELSE "raised"])
    /\ UNCHANGED <<storeVars, otherVars>>

\* warn(), lines 306-308: the reply "auto-muted" returns or raises; the entry
\* is popped and the Document saved
WarnCleared ==
  \E i \in DOMAIN h, sentOk \in BOOLEAN :
    /\ h[i].kind = "warn" /\ h[i].pc = "muted"
    /\ IF ~sentOk
         THEN /\ h' = SetTask(i, [h[i] EXCEPT !.pc = "raised"])
              /\ UNCHANGED <<storeVars, otherVars>>
         ELSE LET k == WarnKey(h[i].chat, h[i].target)
                  W == Del(STORE.warns, k)
              IN /\ STORE' = [STORE EXCEPT !.warns = W]
                 /\ save_store(STORE')
                 /\ h' = SetTask(i, [h[i] EXCEPT !.pc = "done"])
                 /\ ledger' =
                      Append(ledger, Entry("clear", k, i, STORE.warns, W))
                 /\ UNCHANGED <<GLOBAL_BLACKLIST, gateVars>>

\* delwarn(), lines 314-318, from the resolved target on
DelwarnBody(i, r, target) ==
  IF target = None
    THEN /\ h' = SetTask(i, [Resolved(r, target) EXCEPT !.pc = "done"])
         /\ UNCHANGED <<storeVars, otherVars>>
    ELSE LET k == WarnKey(r.chat, target)
             W == remove_warn(STORE.warns, k)
         IN /\ STORE' = [STORE EXCEPT !.warns = W]
            /\ IF k \in DOMAIN STORE.warns
                 THEN save_store(STORE')
                 ELSE UNCHANGED <<disk, saveFailed>>
            /\ h' = SetTask(i, [Resolved(r, target) EXCEPT !.pc = "done"])
            /\ ledger' = Append(ledger, Entry("remove", k, i, STORE.warns, W))
            /\ UNCHANGED <<GLOBAL_BLACKLIST, gateVars>>

\* delwarn(), lines 311-313: is_admin has answered
DelwarnStart(max, chats, inputs) ==
  /\ CanStart(max)
  /\ \E c \in chats, in \in inputs, admin \in IsAdmin :
       LET r == [NewTask("delwarn", c, 1) EXCEPT !.reply = in.reply,
                                                 !.arg = in.arg]
           i == Len(h) + 1
           t == get_target_user(r)
       IN IF ~admin
            THEN /\ in.reply = 2   \* one command of a stranger stands for all
                 /\ h' = SetTask(i, [Resolved(r, None) EXCEPT
                                       !.pc = "done", !.denied = ~admin])
                 /\ UNCHANGED <<storeVars, otherVars>>
            ELSE IF t.wait # ""
              THEN /\ h' = SetTask(i, [r EXCEPT !.pc = t.wait])
                   /\ UNCHANGED <<storeVars, otherVars>>
              ELSE DelwarnBody(i, r, t.user)

\* delwarn() resumed when the lookup of its target ends
DelwarnLookup ==
  \E i \in DOMAIN h, found \in BOOLEAN :
    /\ h[i].kind = "delwarn" /\ Looking(h[i])
    /\ DelwarnBody(i, h[i], Looked(h[i], found))

(* -------------------------------- /warns ------------------------------ *)
\* warns(), lines 321-323, from the return of get_target_user on: the count
\* of the target, or of the invoker when there is none, is read for the
\* reply.  The record keeps what get_target_user was given and returned,
\* and the lookup it made of the transport, if any, with its outcome.
WarnsBody(i, r, target, looked) ==
  LET user == IF target # None THEN target ELSE r.user
  IN /\ h' = SetTask(i, [r EXCEPT
                           !.pc = "done", !.target = target,
                           !.calls = looked,
                           !.count = get_warn_count(STORE.warns,
                                                    WarnKey(r.chat, user))])
     /\ UNCHANGED <<storeVars, otherVars>>

\* warns(), line 321: anyone may ask
WarnsStart(max, chats, inputs) ==
  /\ CanStart(max)
  /\ \E c \in chats, u \in Users, in \in inputs :
       LET r == [NewTask("warns", c, u) EXCEPT !.reply = in.reply,
                                               !.arg = in.arg]
           i == Len(h) + 1
           t == get_target_user(r)
       IN IF t.wait # ""
            THEN /\ h' = SetTask(i, [r EXCEPT !.pc = t.wait])
                 /\ UNCHANGED <<storeVars, otherVars>>
            ELSE WarnsBody(i, r, t.user, <<>>)

\* warns() resumed when the lookup of its target ends
WarnsLookup ==
  \E i \in DOMAIN h, found \in BOOLEAN :
    /\ h[i].kind = "warns" /\ Looking(h[i])
    /\ WarnsBody(i, h[i], Looked(h[i], found),
                 <<[lookup |-> h[i].pc, found |-> found,
                    user |-> IF h[i].pc = "lookup_handle"
                               THEN HandleOwner(h[i].arg)
                               ELSE ParseInt(h[i].arg)]>>)

(* ------------------ /kick /ban /unban /mute /unmute ------------------- *)
\* the moderation commands and the calls each makes on the transport, in
\* order, once its target is resolved (kick 332-333, ban 343, unban 353,
\* mute 365, unmute 375-384)
ModKinds == {"kick", "ban", "unban", "mute", "unmute"}

Plan(kind) ==
  CASE kind = "kick" -> <<"ban_chat_member", "unban_chat_member">>
    [] kind = "ban" -> <<"ban_chat_member">>
    [] kind = "unban" -> <<"unban_chat_member">>
    [] kind = "mute" -> <<"restrict_chat_member">>
    [] kind = "unmute" -> <<"restrict_chat_member">>

\* from the resolved target to the first call on the transport
ModBody(i, r, target) ==
  /\ h' = SetTask(i,
            IF target = None
              THEN [Resolved(r, target) EXCEPT !.pc = "done"]
              ELSE [Resolved(r, target) EXCEPT
                      !.pc = "calling", !.idx = 1,
                      !.calls = <<Plan(r.kind)[1]>>])
  /\ UNCHANGED <<storeVars, otherVars>>

\* kick(), ban(), unban(), mute(), unmute(): is_admin has answered
ModStart(max, chats, inputs) ==
  /\ CanStart(max)
  /\ \E kind \in ModKinds, c \in chats, in \in inputs, admin \in IsAdmin :
       LET r == [NewTask(kind, c, 1) EXCEPT !.reply = in.reply,
                                            !.arg = in.arg]
           i == Len(h) + 1
           t == get_target_user(r)
       IN IF ~admin
            THEN /\ in.reply = 2   \* one command of a stranger stands for all
                 /\ h' = SetTask(i, [Resolved(r, None) EXCEPT
                                       !.pc = "done", !.denied = TRUE])
                 /\ UNCHANGED <<storeVars, otherVars>>
            ELSE IF t.wait # ""
              THEN /\ h' = SetTask(i, [r EXCEPT !.pc = t.wait])
                   /\ UNCHANGED <<storeVars, otherVars>>
              ELSE ModBody(i, r, t.user)

\* the command resumed when the lookup of its target ends
ModLookup ==
  \E i \in DOMAIN h, found \in BOOLEAN :
    /\ h[i].kind \in ModKinds /\ Looking(h[i])
    /\ ModBody(i, h[i], Looked(h[i], found))

\* a call on the transport returns or raises: the next call of the plan is
\* made, or the closing reply sent
ModNext ==
  \E i \in DOMAIN h, callOk \in BOOLEAN :
    /\ h[i].kind \in ModKinds /\ h[i].pc = "calling"
    /\ h' = SetTask(i,
              IF ~callOk THEN [h[i] EXCEPT !.pc = "raised"]
              ELSE IF h[i].idx < Len(Plan(h[i].kind))
                THEN [h[i] EXCEPT !.idx = @ + 1,
                        !.calls = Append(@, Plan(h[i].kind)[h[i].idx + 1])]
                ELSE [h[i] EXCEPT !.pc = "done"])
    /\ UNCHANGED <<storeVars, otherVars>>

\* (/clearwelcome obeyed whoever sends it)
ClearAnyone(max, chats) ==
  /\ CanStart(max)
  /\ \E c \in chats, admin \in IsAdmin :
       /\ STORE' = [STORE EXCEPT !.welcomes = Del(STORE.welcomes, c)]
       /\ save_store(STORE')
       /\ h' = SetTask(Len(h) + 1,
                 [NewTask("clearwelcome", c, 1) EXCEPT
                    !.pc = "done", !.denied = ~admin])
       /\ UNCHANGED <<GLOBAL_BLACKLIST, otherVars>>

(* ---------------------------- welcome system ------------------------- *)
\* the config of a chat: STORE["welcomes"].get(str(chat_id), {}), a field
\* that is not set reading as empty
WelcomeCfg(chat) == Get(STORE.welcomes, chat, NoCfg)

\* STORE["welcomes"] with field f of the chat's config set to v, the config
\* created first when the chat has none (setdefault)
WithField(chat, f, v) ==
  Put(STORE.welcomes, chat, [WelcomeCfg(chat) EXCEPT ![f] = v])

\* the arguments of /setwelcometext: none, or a template
WelcomeTexts == {"", "Welcome {first}!"}

\* setwelcometext(), lines 419-427, once is_admin has answered
SetTextStart(max, chats) ==
  /\ CanStart(max)
  /\ \E c \in chats, text \in WelcomeTexts, admin \in IsAdmin :
       /\ ~admin => text = ""   \* one command of a stranger stands for all
       /\ h' = SetTask(Len(h) + 1,
                 [NewTask("setwelcometext", c, 1) EXCEPT !.pc = "done",
                                                   !.denied = ~admin])
       /\ IF admin /\ text # ""
            THEN /\ STORE' = [STORE EXCEPT
                                !.welcomes = WithField(c, "text", text)]
                 /\ save_store(STORE')
                 /\ UNCHANGED <<GLOBAL_BLACKLIST, otherVars>>
            ELSE UNCHANGED <<storeVars, otherVars>>

\* what /setmedia replies to: nothing or a message without media (""), or a
\* message with a photo, an animation or a video
MediaKinds == {"", "photo", "animation", "video"}

\* setmedia(), lines 430-445, once is_admin has answered; the file id of the
\* media is an opaque string
SetMediaStart(max, chats) ==
  /\ CanStart(max)
  /\ \E c \in chats, kind \in MediaKinds, admin \in IsAdmin :
       /\ ~admin => kind = ""   \* one command of a stranger stands for all
       /\ h' = SetTask(Len(h) + 1,
                 [NewTask("setmedia", c, 1) EXCEPT !.pc = "done",
                                                   !.denied = ~admin])
       /\ IF admin /\ kind # ""
            THEN /\ STORE' = [STORE EXCEPT !.welcomes =
                       Put(STORE.welcomes, c,
                           [WelcomeCfg(c) EXCEPT !.media = "file_id",
                                                 !.type = kind])]
                 /\ save_store(STORE')
                 /\ UNCHANGED <<GLOBAL_BLACKLIST, otherVars>>
            ELSE UNCHANGED <<storeVars, otherVars>>

\* strings of /setchannellink, as sequences of characters
Https == <<"h", "t", "t", "p", "s", ":", "/", "/">>
Http == <<"h", "t", "t", "p">>
TMe == <<"t", ".", "m", "e">>

\* the first argument of /setchannellink: none, "t.me/x", "https://t.me/x",
\* "x.io" or "ftp://x"
LinkArgs ==
  {<<>>, TMe \o <<"/", "x">>, Https \o TMe \o <<"/", "x">>,
   <<"x", ".", "i", "o">>, <<"f", "t", "p", ":", "/", "/", "x">>}

\* (a normalisation that looks for "http" only)
NormalizeHttpOnly(link) == IF StartsWith(link, Http) THEN link ELSE Https \o link

\* setchannellink(), lines 453-455: the link to store
Normalize(link) ==
  IF ~(StartsWith(link, Http) \/ StartsWith(link, TMe))
    THEN Https \o link
    ELSE link

\* setchannellink(), lines 448-458, once is_admin has answered
SetLinkStart(max, chats) ==
  /\ CanStart(max)
  /\ \E c \in chats, link \in LinkArgs, admin \in IsAdmin :
       /\ ~admin => link = <<>>   \* one command of a stranger stands for all
       /\ IF admin /\ link # <<>>
            THEN /\ STORE' = [STORE EXCEPT !.welcomes =
                                WithField(c, "link", Normalize(link))]
                 /\ save_store(STORE')
                 /\ h' = SetTask(Len(h) + 1,
                           [NewTask("setchannellink", c, 1) EXCEPT
                              !.pc = "done", !.arg = link,
                              !.cfg = WelcomeCfg(c)'])
                 /\ UNCHANGED <<GLOBAL_BLACKLIST, otherVars>>
            ELSE /\ h' = SetTask(Len(h) + 1,
                           [NewTask("setchannellink", c, 1) EXCEPT
                              !.pc = "done", !.denied = ~admin])
                 /\ UNCHANGED <<storeVars, otherVars>>

\* A task inside _send_welcome holds the chat's config dict itself (live), so
\* it sees what the set commands write into it; popping the dict from
\* STORE["welcomes"] leaves the task with the dict as it was popped.
Detached(r, c) ==
  IF r.live /\ r.chat = c
    THEN [r EXCEPT !.live = FALSE, !.cfg = WelcomeCfg(c)]
    ELSE r

\* clearwelcome(), lines 461-465, once is_admin has answered
ClearStart(max, chats) ==
  /\ CanStart(max)
  /\ \E c \in chats, admin \in IsAdmin :
       IF admin
         THEN /\ STORE' = [STORE EXCEPT !.welcomes = Del(STORE.welcomes, c)]
              /\ save_store(STORE')
              /\ h' = [j \in 1..(Len(h) + 1) |->
                         IF j <= Len(h) THEN Detached(h[j], c)
                         ELSE [NewTask("clearwelcome", c, 1) EXCEPT
                                 !.pc = "done"]]
              /\ UNCHANGED <<GLOBAL_BLACKLIST, otherVars>>
         ELSE /\ h' = SetTask(Len(h) + 1,
                        [NewTask("clearwelcome", c, 1) EXCEPT
                           !.pc = "done", !.denied = TRUE])
              /\ UNCHANGED <<storeVars, otherVars>>

\* the config dict a task inside _send_welcome reads
CfgOf(r) == IF r.live THEN WelcomeCfg(r.chat) ELSE r.cfg

\* _send_welcome, lines 473-500: the message asked of the transport for
\* member n of the task: whom it greets, the template, media and button link
\* it is rendered from, and (history) whether the chat has a template and
\* whether the member is blacklisted at that moment
Welcome(r, n) ==
  [member |-> r.members[n], text |-> CfgOf(r).text,
   media |-> CfgOf(r).media, link |-> CfgOf(r).link,
   configured |-> WelcomeCfg(r.chat).text # "",
   blacklisted |-> r.members[n] \in GLOBAL_BLACKLIST]

\* _send_welcome(members = r.members), lines 468-500, up to the first send
send_welcome(i, r) ==
  /\ h' = SetTask(i,
            IF WelcomeCfg(r.chat).text = ""
              THEN [r EXCEPT !.pc = "done"]
              ELSE [r EXCEPT !.pc = "sending", !.live = TRUE, !.idx = 1,
                      !.sent = {Welcome([r EXCEPT !.live = TRUE], 1)}])
  /\ UNCHANGED <<storeVars, otherVars>>

\* _send_welcome, lines 472-502: a send has returned or raised (the
\* exception is logged and the loop goes on): the next member, if any
WelcomeNext ==
  \E i \in DOMAIN h :
    /\ h[i].pc = "sending"
    /\ h' = SetTask(i,
              IF h[i].idx < Len(h[i].members)
                THEN [h[i] EXCEPT !.idx = @ + 1,
                        !.sent = @ \cup {Welcome(h[i], h[i].idx + 1)}]
                ELSE [h[i] EXCEPT !.pc = "done"])
    /\ UNCHANGED <<storeVars, otherVars>>

\* update.message.new_chat_members: the users a service message lists
MemberLists == {<<2>>, <<1, 2>>}

\* legacy_welcome(), lines 505-506
LegacyStart(max, chats) ==
  /\ CanStart(max)
  /\ \E c \in chats, ms \in MemberLists :
       send_welcome(Len(h) + 1,
                    [NewTask("legacy_welcome", c, ms[1]) EXCEPT
                       !.members = ms])

\* the old member statuses of a chat-member update that are tried
Statuses == {"left", "restricted", "member"}

\* welcome_new_member(), lines 509-519: the update is a change of status of a
\* member made by user u (from_user), who is a bot when bot is true; it is u
\* who is tested and greeted
MemberStart(max, chats) ==
  /\ CanStart(max)
  /\ \E c \in chats, u \in Users, bot \in BOOLEAN,
        old \in Statuses, new \in {"member", "left"} :
       LET r == [NewTask("welcome_new_member", c, u) EXCEPT
                   !.members = <<u>>, !.arg = <<old, new>>]
           i == Len(h) + 1
       IN IF old \in {"member", "administrator", "creator"}
               \/ new # "member"
            THEN /\ bot = FALSE
                 /\ h' = SetTask(i, [r EXCEPT !.pc = "done"])
                 /\ UNCHANGED <<storeVars, otherVars>>
            ELSE IF bot \/ is_globally_blacklisted(u)
              THEN /\ h' = SetTask(i, [r EXCEPT !.pc = "done"])
                   /\ UNCHANGED <<storeVars, otherVars>>
              ELSE send_welcome(i, r)

(* ----------------------------- banned words -------------------------- *)
\* " ".join(context.args) of /addword and /removeword: no argument, or a word
WordArgs == {"", "spam", "SPAM", "badword"}

\* str.lower() on these words
Lower(w) == IF w = "SPAM" THEN "spam" ELSE w

\* list.remove(word): the list without the first occurrence of the word
RECURSIVE ListRemove(_, _)
ListRemove(lst, w) ==
  IF lst = <<>> THEN <<>>
  ELSE IF Head(lst) = w THEN Tail(lst)
  ELSE <<Head(lst)>> \o ListRemove(Tail(lst), w)

\* the characters of the words and texts that are tried
CharsOf(s) ==
  CASE s = "spam" ->
         <<"s", "p", "a", "m">>
    [] s = "SPAM" ->
         <<"S", "P", "A", "M">>
    [] s = "badword" ->
         <<"b", "a", "d", "w", "o", "r", "d">>
    [] s = "this contains BadWord here" ->
         <<"t", "h", "i", "s", " ", "c", "o", "n", "t", "a", "i", "n", "s",
           " ", "B", "a", "d", "W", "o", "r", "d", " ", "h", "e", "r", "e">>
    [] s = "buy SPAM now" ->
         <<"b", "u", "y", " ", "S", "P", "A", "M", " ", "n", "o", "w">>
    [] s = "hello all" ->
         <<"h", "e", "l", "l", "o", " ", "a", "l", "l">>
    [] s = "@DresGuardian" ->
         <<"@", "D", "r", "e", "s", "G", "u", "a", "r", "d", "i", "a", "n">>
    [] s = "hey dres what is up" ->
         <<"h", "e", "y", " ", "d", "r", "e", "s", " ", "w", "h", "a", "t",
           " ", "i", "s", " ", "u", "p">>
    [] OTHER -> <<>>

\* str.lower(), character by character
LowerChar(c) ==
  CASE c = "A" -> "a"
    [] c = "B" -> "b"
    [] c = "C" -> "c"
    [] c = "D" -> "d"
    [] c = "E" -> "e"
    [] c = "F" -> "f"
    [] c = "G" -> "g"
    [] c = "H" -> "h"
    [] c = "I" -> "i"
    [] c = "J" -> "j"
    [] c = "K" -> "k"
    [] c = "L" -> "l"
    [] c = "M" -> "m"
    [] c = "N" -> "n"
    [] c = "O" -> "o"
    [] c = "P" -> "p"
    [] c = "Q" -> "q"
    [] c = "R" -> "r"
    [] c = "S" -> "s"
    [] c = "T" -> "t"
    [] c = "U" -> "u"
    [] c = "V" -> "v"
    [] c = "W" -> "w"
    [] c = "X" -> "x"
    [] c = "Y" -> "y"
    [] c = "Z" -> "z"
    [] OTHER -> c

LowerSeq(s) == [n \in 1..Len(s) |-> LowerChar(s[n])]

\* p in s, for strings: p occurs somewhere inside s
RECURSIVE Contains(_, _)
Contains(s, p) ==
  IF Len(s) < Len(p) THEN FALSE
  ELSE StartsWith(s, p) \/ Contains(Tail(s), p)

\* (matching that lowercases the stored word only)
RECURSIVE AnyWordExact(_, _)
AnyWordExact(words, text) ==
  IF words = <<>> THEN FALSE
  ELSE Contains(CharsOf(text), LowerSeq(CharsOf(Head(words))))
         \/ AnyWordExact(Tail(words), text)

\* any(w.lower() in text.lower() for w in words), line 163
RECURSIVE AnyWord(_, _)
AnyWord(words, text) ==
  IF words = <<>> THEN FALSE
  ELSE Contains(LowerSeq(CharsOf(text)), LowerSeq(CharsOf(Head(words))))
         \/ AnyWord(Tail(words), text)

\* has_banned_word(chat_id, text) on the Document S
has_banned_word(S, chat, text) ==
  AnyWord(Get(S.banned_words, chat, <<>>), text)

\* (/addword appending the word whether or not the list has it)
AddWordAgain(max, chats) ==
  /\ CanStart(max)
  /\ \E c \in chats, arg \in WordArgs, admin \in IsAdmin :
       LET word == Lower(arg)
           words == Get(STORE.banned_words, c, <<>>)
       IN /\ ~admin => arg = ""
          /\ h' = SetTask(Len(h) + 1,
                    [NewTask("addword", c, 1) EXCEPT !.pc = "done",
                       !.arg = IF arg = "" THEN <<>> ELSE <<arg>>,
                       !.denied = ~admin])
          /\ IF admin /\ arg # ""
               THEN /\ STORE' = [STORE EXCEPT !.banned_words =
                                   Put(@, c, Append(words, word))]
                    /\ save_store(STORE')
                    /\ UNCHANGED <<GLOBAL_BLACKLIST, otherVars>>
               ELSE UNCHANGED <<storeVars, otherVars>>

\* addword(), lines 388-400, once is_admin has answered
AddWordStart(max, chats) ==
  /\ CanStart(max)
  /\ \E c \in chats, arg \in WordArgs, admin \in IsAdmin :
       LET word == Lower(arg)
           words == Get(STORE.banned_words, c, <<>>)
       IN /\ ~admin => arg = ""   \* one command of a stranger stands for all
          /\ h' = SetTask(Len(h) + 1,
                    [NewTask("addword", c, 1) EXCEPT !.pc = "done",
                       !.arg = IF arg = "" THEN <<>> ELSE <<arg>>,
                       !.denied = ~admin])
          /\ IF admin /\ arg # "" /\ word \notin Range(words)
               THEN /\ STORE' = [STORE EXCEPT !.banned_words =
                                   Put(@, c, Append(words, word))]
                    /\ save_store(STORE')
                    /\ UNCHANGED <<GLOBAL_BLACKLIST, otherVars>>
               ELSE UNCHANGED <<storeVars, otherVars>>

\* removeword(), lines 403-415, once is_admin has answered
RemoveWordStart(max, chats) ==
  /\ CanStart(max)
  /\ \E c \in chats, arg \in WordArgs, admin \in IsAdmin :
       LET word == Lower(arg)
           words == Get(STORE.banned_words, c, <<>>)
       IN /\ ~admin => arg = ""   \* one command of a stranger stands for all
          /\ h' = SetTask(Len(h) + 1,
                    [NewTask("removeword", c, 1) EXCEPT !.pc = "done",
                       !.arg = IF arg = "" THEN <<>> ELSE <<arg>>,
                       !.denied = ~admin])
          /\ IF admin /\ arg # "" /\ c \in DOMAIN STORE.banned_words
                /\ word \in Range(words)
               THEN /\ STORE' = [STORE EXCEPT !.banned_words =
                                   Put(@, c, ListRemove(words, word))]
                    /\ save_store(STORE')
                    /\ UNCHANGED <<GLOBAL_BLACKLIST, otherVars>>
               ELSE UNCHANGED <<storeVars, otherVars>>

(* ------------------------- routing of updates ------------------------ *)
\* main(), lines 570-604: the handlers in the order they are added, all to
\* the default group; each with the kind of update its filter accepts
Handlers ==
  <<[on |-> "/start", callback |-> "start"],
    [on |-> "/help", callback |-> "help_cmd"],
    [on |-> "/ask", callback |-> "ask"],
    [on |-> "/search", callback |-> "search"],
    [on |-> "text", callback |-> "mention_ai"],
    [on |-> "/warn", callback |-> "warn"],
    [on |-> "/delwarn", callback |-> "delwarn"],
    [on |-> "/warns", callback |-> "warns"],
    [on |-> "/kick", callback |-> "kick"],
    [on |-> "/ban", callback |-> "ban"],
    [on |-> "/unban", callback |-> "unban"],
    [on |-> "/mute", callback |-> "mute"],
    [on |-> "/unmute", callback |-> "unmute"],
    [on |-> "/addword", callback |-> "addword"],
    [on |-> "/removeword", callback |-> "removeword"],
    [on |-> "/setwelcometext", callback |-> "setwelcometext"],
    [on |-> "/setmedia", callback |-> "setmedia"],
    [on |-> "/setchannellink", callback |-> "setchannellink"],
    [on |-> "/clearwelcome", callback |-> "clearwelcome"],
    [on |-> "/blacklist", callback |-> "blacklist"],
    [on |-> "/unblacklist", callback |-> "unblacklist"],
    [on |-> "/blacklisted", callback |-> "blacklisted"],
    [on |-> "new_chat_members", callback |-> "legacy_welcome"],
    [on |-> "chat_member", callback |-> "welcome_new_member"],
    [on |-> "text", callback |-> "message_filter"]>>

\* Application.process_update: within a group the first handler whose filter
\* accepts the update handles it, and no other handler of the group runs
Route(on) ==
  LET accepting == {n \in DOMAIN Handlers : Handlers[n].on = on}
      first == CHOOSE n \in accepting : \A k \in accepting : n <= k
  IN Handlers[first].callback

\* message_filter(), lines 523-531: the delete is attempted; whether it
\* succeeds or raises, nothing follows it
message_filter(i, r, m) ==
  /\ h' = SetTask(i,
            IF m.bot \/ is_globally_blacklisted(m.user)
              THEN [r EXCEPT !.pc = "done"]
              ELSE [r EXCEPT !.pc = "done",
                      !.deleted = has_banned_word(STORE, r.chat, m.text)])
  /\ UNCHANGED <<storeVars, otherVars>>

\* the text messages tried against the banned words
WordMessages ==
  {[user |-> 2, text |-> t, bot |-> FALSE] :
       t \in {"buy SPAM now", "hey dres what is up"}}
    \cup {[user |-> 1, text |-> "this contains BadWord here", bot |-> FALSE],
          [user |-> 2, text |-> "buy SPAM now", bot |-> TRUE]}

\* a text message that is not a command arrives and is routed
TextStart(max, chats, msgs) ==
  /\ CanStart(max)
  /\ \E c \in chats, m \in msgs :
       LET cb == Route("text")
           r == [NewTask(IF cb = "mention_ai" THEN "mention" ELSE cb,
                         c, m.user) EXCEPT
                   !.matched = ~m.bot /\ has_banned_word(STORE, c, m.text)]
           i == Len(h) + 1
       IN IF cb = "mention_ai" THEN mention_ai(i, r, m)
                               ELSE message_filter(i, r, m)

(* --------------------------- initial states --------------------------- *)
\* module load: STORE = load_store(); GLOBAL_BLACKLIST = set(STORE["blacklist"])
InitFrom(files) ==
  /\ disk \in files
  /\ STORE = load_store(disk)
  /\ GLOBAL_BLACKLIST = Range(STORE.blacklist)
  /\ saveFailed = FALSE
  /\ last_used = EmptyMap
  /\ locks = {}
  /\ held = {}
  /\ now = 0
  /\ h = <<>>
  /\ ledger = <<>>

Init == InitFrom(InitialFiles)

(* --------- the AI gate: /ask and mentions, and /blacklist ------------- *)
NextGate ==
  \/ AskStart(MaxGateTasks)
  \/ MentionStart(MaxGateTasks)
  \/ AiAnswer
  \/ BlacklistStart(MaxGateTasks, ReplyInputs)

SpecGate == Init /\ [][NextGate]_vars

(* ------------- the owner commands: /blacklist, /unblacklist ------------ *)
NextOwner ==
  \/ BlacklistStart(MaxOwnerTasks, TargetInputs)
  \/ BlacklistLookup
  \/ UnblacklistStart(MaxOwnerTasks, TargetInputs)
  \/ UnblacklistLookup

SpecOwner == Init /\ [][NextOwner]_vars

(* ------------------- the warn ledger: /warn, /delwarn ------------------ *)
NextWarn ==
  \/ WarnStart(MaxWarnTasks, Chats, WarnInputs)
  \/ WarnLookup
  \/ WarnReplied
  \/ WarnMuted
  \/ WarnCleared
  \/ DelwarnStart(MaxWarnTasks, Chats, WarnInputs)
  \/ DelwarnLookup

\* the process started without a snapshot file: the Document is empty
InitEmpty == InitFrom({NoFile})

SpecWarn == InitEmpty /\ [][NextWarn]_vars

(* ------------- /warn, /delwarn and /warns on one chat ------------------ *)
NextLedger ==
  \/ WarnStart(MaxLedgerTasks, {5}, WarnInputs)
  \/ WarnLookup
  \/ WarnReplied
  \/ WarnMuted
  \/ WarnCleared
  \/ DelwarnStart(MaxLedgerTasks, {5}, WarnInputs)
  \/ DelwarnLookup
  \/ WarnsStart(MaxLedgerTasks, {5}, WarnInputs)
  \/ WarnsLookup

SpecLedger == InitEmpty /\ [][NextLedger]_vars

(* ------------- /warns with every way of naming a target --------------- *)
\* a reply, an argument, neither, or a reply together with an argument
ReplyAndArg == {[reply |-> 1, arg |-> <<"2">>], [reply |-> 1, arg |-> <<"x">>]}

NextTarget ==
  \/ WarnsStart(MaxTargetTasks, {5}, TargetInputs \cup ReplyAndArg)
  \/ WarnsLookup

SpecTarget == InitEmpty /\ [][NextTarget]_vars

(* ------------- /warn commands of admins on one member ------------------ *)
\* the /warn commands here reply to a message of user 2 in chat 5
NextEscalate ==
  \/ WarnStart(MaxEscalateTasks, {5}, {[reply |-> 2, arg |-> <<>>]})
  \/ WarnReplied
  \/ WarnMuted
  \/ WarnCleared

SpecEscalate == InitEmpty /\ [][NextEscalate]_vars

(* --------- the welcome system: its commands and the two join paths ----- *)
NextWelcome ==
  \/ SetTextStart(MaxWelcomeTasks, {5})
  \/ SetMediaStart(MaxWelcomeTasks, {5})
  \/ SetLinkStart(MaxWelcomeTasks, {5})
  \/ ClearStart(MaxWelcomeTasks, {5})
  \/ LegacyStart(MaxWelcomeTasks, {5})
  \/ MemberStart(MaxWelcomeTasks, {5})
  \/ WelcomeNext

SpecWelcome == Init /\ [][NextWelcome]_vars

(* ------------- the banned words: their commands and messages ---------- *)
\* the snapshots the process starts from: none, or one in which user 2 is
\* blacklisted and chat 100 has the word "SPAM" (written by hand)
WordFiles ==
  {NoFile,
   Snapshot([x \in {"blacklist", "banned_words"} |->
               IF x = "blacklist" THEN <<2>> ELSE (100 :> <<"SPAM">>)])}

NextWords ==
  \/ AddWordStart(MaxWordTasks, Chats)
  \/ RemoveWordStart(MaxWordTasks, Chats)
  \/ TextStart(MaxWordTasks, Chats, WordMessages)
  \/ AiAnswer

SpecWords == InitFrom(WordFiles) /\ [][NextWords]_vars

(* ------------- every command that writes into the Document ------------- *)
\* the snapshots the process starts from: none, or one written by an earlier
\* run in which user 2 was warned twice in chat 5 and blacklisted
StoreFiles ==
  {NoFile,
   Snapshot([DefaultStore EXCEPT !.blacklist = <<2>>,
                                 !.warns = (WarnKey(5, 2) :> 2)])}

\* the commands here are replies to a message of user 2
StoreInputs == {[reply |-> 2, arg |-> <<>>]}

NextStore ==
  \/ WarnStart(MaxStoreTasks, {5}, StoreInputs)
  \/ WarnReplied
  \/ WarnMuted
  \/ WarnCleared
  \/ DelwarnStart(MaxStoreTasks, {5}, StoreInputs)
  \/ BlacklistStart(MaxStoreTasks, StoreInputs)
  \/ UnblacklistStart(MaxStoreTasks, StoreInputs)
  \/ AddWordStart(MaxStoreTasks, {5})
  \/ RemoveWordStart(MaxStoreTasks, {5})
  \/ SetTextStart(MaxStoreTasks, {5})
  \/ SetMediaStart(MaxStoreTasks, {5})
  \/ SetLinkStart(MaxStoreTasks, {5})
  \/ ClearStart(MaxStoreTasks, {5})

SpecStore == InitFrom(StoreFiles) /\ [][NextStore]_vars

(* ------------- /ask next to /warn, with the AI call as a step ---------- *)
\* the steps of /ask and /warn that the event loop can run when it is free
LoopAsk == LoopFree /\ AskStart(MaxLoopTasks)
LoopAiBegin == LoopFree /\ AiBegin
LoopWarn == LoopFree /\ WarnStart(MaxLoopTasks, {5}, StoreInputs)
LoopWarnReplied == LoopFree /\ WarnReplied
LoopWarnMuted == LoopFree /\ WarnMuted
LoopWarnCleared == LoopFree /\ WarnCleared

NextLoop ==
  \/ LoopAsk
  \/ LoopAiBegin
  \/ AiReturn
  \/ LoopWarn
  \/ LoopWarnReplied
  \/ LoopWarnMuted
  \/ LoopWarnCleared

SpecLoop == InitFrom(StoreFiles) /\ [][NextLoop]_vars

(* ------------- the same commands, from any snapshot file -------------- *)
\* a Document written by an earlier run
SampleStore ==
  [welcomes |-> (5 :> [NoCfg EXCEPT !.text = "Welcome {first}!"]),
   blacklist |-> <<2>>,
   banned_words |-> (5 :> <<"spam">>),
   warns |-> (WarnKey(5, 2) :> 2)]

\* the snapshot file at start: missing, unreadable or corrupt, or a valid
\* snapshot holding any of the four fields
AllFiles ==
  {NoFile, Corrupt}
    \cup {Snapshot([k \in F |-> SampleStore[k]]) : F \in SUBSET Fields}

SpecStorage == InitFrom(AllFiles) /\ [][NextStore]_vars

(* ---------------- every command that is for admins only --------------- *)
NextAdmin ==
  \/ WarnStart(MaxAdminTasks, {5}, StoreInputs)
  \/ WarnReplied
  \/ WarnMuted
  \/ WarnCleared
  \/ DelwarnStart(MaxAdminTasks, {5}, StoreInputs)
  \/ ModStart(MaxAdminTasks, {5}, WarnInputs)
  \/ ModLookup
  \/ ModNext
  \/ AddWordStart(MaxAdminTasks, {5})
  \/ RemoveWordStart(MaxAdminTasks, {5})
  \/ SetTextStart(MaxAdminTasks, {5})
  \/ SetMediaStart(MaxAdminTasks, {5})
  \/ SetLinkStart(MaxAdminTasks, {5})
  \/ ClearStart(MaxAdminTasks, {5})

SpecAdmin == InitFrom(StoreFiles) /\ [][NextAdmin]_vars

(* ======================= the AI request gate ========================== *)
\* the tasks that have called can_use_ai; their order in h is the order of
\* the calls
GateCalls == {i \in DOMAIN h : h[i].gate # "none"}

SameUser(i, j) == h[i].user = h[j].user

\* call j falls in the cooldown window that call i opens
InWindow(i, j) ==
  j >= i /\ SameUser(i, j) /\ h[j].gateT - h[i].gateT < COOLDOWN

\* no call of the same user was granted less than the cooldown before call i
EligibleAt(i) ==
  \A j \in GateCalls :
    j < i /\ SameUser(i, j) /\ h[j].gate = "granted"
      => h[i].gateT - h[j].gateT >= COOLDOWN

\* C1: of the calls of can_use_ai for one user that fall within one cooldown
\* window, no two are granted, and exactly one is granted when the user was
\* eligible at the first of them.
C1_GateMutualExclusion ==
  \A i \in GateCalls :
    /\ \A j \in GateCalls :
         j > i /\ InWindow(i, j) /\ h[i].gate = "granted"
           => h[j].gate = "denied"
    /\ EligibleAt(i) =>
         Cardinality({j \in GateCalls :
                        InWindow(i, j) /\ h[j].gate = "granted"}) = 1

C1_Witness ==
  \E i, j, k \in GateCalls :
    /\ i < j /\ j < k
    /\ InWindow(i, j) /\ InWindow(i, k)
    /\ h[i].gate = "granted" /\ h[j].gate = "denied" /\ h[k].gate = "denied"

\* the time of the latest granted call of user u, -1 when there is none
LastGrant(u) ==
  LET G == {i \in GateCalls : h[i].user = u /\ h[i].gate = "granted"}
  IN IF G = {} THEN 0 - 1
     ELSE CHOOSE t \in {h[i].gateT : i \in G} :
            \A i \in G : h[i].gateT <= t

\* C2: can_use_ai(u) returns true exactly when u has no granted call or the
\* latest one is at least the cooldown old; the recorded timestamp of u is
\* the time of its latest granted call (denied calls leave it alone), so two
\* grants of one user are at least the cooldown apart.
C2_CooldownRule ==
  /\ \A i \in GateCalls : (h[i].gate = "granted") <=> EligibleAt(i)
  /\ \A u \in Users :
       IF LastGrant(u) < 0 THEN u \notin DOMAIN last_used
       ELSE u \in DOMAIN last_used /\ last_used[u] = LastGrant(u)
  /\ \A i, j \in GateCalls :
       i < j /\ SameUser(i, j) /\ h[i].gate = "granted"
         /\ h[j].gate = "granted"
         => h[j].gateT - h[i].gateT >= COOLDOWN

C2_Witness ==
  \E i, j, k \in GateCalls :
    /\ i < j /\ j < k /\ SameUser(i, j) /\ SameUser(j, k)
    /\ h[i].gate = "granted" /\ h[j].gate = "denied"
    /\ h[k].gate = "granted"
    /\ last_used[h[k].user] = h[k].gateT

\* C6: a request (/ask or a mention) of a user who is blacklisted when it is
\* handled never reaches the gate or the AI backend; a user all of whose
\* requests were made while blacklisted has no lock and no timestamp.
C6_BlacklistBeforeGate ==
  /\ \A i \in DOMAIN h :
       h[i].kind \in {"ask", "mention"} /\ h[i].blAtStart
         => h[i].gate = "none" /\ ~h[i].aiCalled /\ h[i].pc = "done"
  /\ \A u \in Users :
       (\A i \in DOMAIN h :
          h[i].kind \in {"ask", "mention"} /\ h[i].user = u
            => h[i].blAtStart)
         => u \notin locks /\ u \notin DOMAIN last_used

C6_Witness ==
  \E i, j, k \in DOMAIN h :
    /\ h[i].kind = "ask" /\ h[i].blAtStart /\ h[i].pc = "done"
    /\ h[j].kind = "mention" /\ h[j].blAtStart /\ h[j].pc = "done"
    /\ h[k].kind = "ask" /\ ~h[k].blAtStart /\ h[k].aiCalled
    /\ h[i].user \notin locks

(* ========================= the Global Blacklist ======================= *)
\* task i ends in this step
Ends(i) == (i \notin DOMAIN h \/ h[i].pc # "done") /\ h'[i].pc = "done"

\* the set and the Document's list hold the same user ids
BlacklistInSync == Range(STORE.blacklist) = GLOBAL_BLACKLIST

\* the step that ends /blacklist of a resolved user leaves that user
\* blacklisted, the one that ends /unblacklist leaves the user not blacklisted
BlacklistImmediate ==
  \A i \in DOMAIN h' :
    Ends(i) /\ h'[i].target # None =>
      /\ h'[i].kind = "blacklist" => h'[i].target \in GLOBAL_BLACKLIST'
      /\ h'[i].kind = "unblacklist" => h'[i].target \notin GLOBAL_BLACKLIST'

\* C7: in every reachable state GLOBAL_BLACKLIST and STORE["blacklist"] hold
\* exactly the same user ids, and is_globally_blacklisted(u) is true right
\* after u is blacklisted and false right after u is unblacklisted.
C7_BlacklistMirror == []BlacklistInSync /\ [][BlacklistImmediate]_vars

C7_Witness ==
  \E i, j \in DOMAIN h :
    /\ h[i].kind = "blacklist" /\ h[i].target = 1 /\ h[i].pc = "done"
    /\ h[j].kind = "unblacklist" /\ h[j].target = 2 /\ h[j].pc = "done"
    /\ GLOBAL_BLACKLIST = {1}
    /\ STORE.blacklist = <<1>>

(* =========================== the Warn Ledger ========================== *)
WarnKeys == {WarnKey(c, u) : c \in Chats, u \in Users}

\* the operations on the entry of key k, in order
KeyLog(k) == SelectSeq(ledger, LAMBDA e : e.key = k)

\* C3: three warns in a row on an absent entry return 1, 2 and 3; the third
\* asks the transport for the mute once its reply has gone out, the first two
\* ask for none, and the step that ends the third workflow deletes the entry,
\* so that the count reads 0.
C3_ThreeWarnsEscalate ==
  \A k \in WarnKeys :
    LET L == KeyLog(k)
    IN \A q \in 1..(Len(L) - 2) :
         (~L[q].had /\ \A j \in q..(q + 2) : L[j].op = "add") =>
           LET t == L[q + 2].task
           IN /\ \A j \in 0..2 : /\ L[q + j].after = j + 1
                                 /\ h[L[q + j].task].count = j + 1
              /\ h[L[q].task].mutes = 0 /\ h[L[q + 1].task].mutes = 0
              /\ h[t].pc \notin {"warned", "raised"} => h[t].mutes = 1
              /\ h[t].pc = "done" =>
                   \E m \in (q + 3)..Len(L) :
                     /\ L[m].op = "clear" /\ L[m].task = t
                     /\ L[m].after = 0 /\ ~L[m].present

C3_Witness ==
  \E k \in WarnKeys :
    LET L == KeyLog(k)
    IN /\ Len(L) = 4
       /\ \A j \in 1..3 : L[j].op = "add" /\ h[L[j].task].pc = "done"
       /\ L[4].op = "clear" /\ L[4].task = L[3].task
       /\ h[L[3].task].mutes = 1
       /\ get_warn_count(STORE.warns, k) = 0

\* C4: add_warn followed by remove_warn on one entry gives back the count
\* there was, an entry brought back to 0 being absent; remove_warn on an
\* absent entry leaves it absent; and remove_warn changes no other entry.
C4_AddThenRemove ==
  /\ \A k \in WarnKeys :
       LET L == KeyLog(k)
       IN \A q \in 1..(Len(L) - 1) :
            L[q].op = "add" /\ L[q + 1].op = "remove" =>
              /\ L[q + 1].after = L[q].before
              /\ L[q + 1].present = L[q].had
  /\ \A n \in DOMAIN ledger :
       ledger[n].op = "remove" =>
         /\ ledger[n].frame
         /\ ~ledger[n].had => ~ledger[n].present /\ ledger[n].after = 0
  /\ \A k \in DOMAIN STORE.warns : STORE.warns[k] >= 1

C4_Witness ==
  \E k \in WarnKeys :
    LET L == KeyLog(k)
    IN /\ k # WarnKey(100, 2)
       /\ Len(L) = 2
       /\ L[1].op = "add" /\ ~L[1].had
       /\ L[2].op = "remove" /\ ~L[2].present /\ L[2].after = 0
       /\ STORE.warns = (WarnKey(100, 2) :> 1)

(* ---------------------------------------------------------------------- *)
\* every welcome that some task has asked the transport to send
Welcomes == UNION {h[i].sent : i \in DOMAIN h}

\* C5: on both join paths (the chat-member update and the new-chat-members
\* message) no welcome is rendered or sent for a member who is on the Global
\* Blacklist at that moment.
C5_NoWelcomeForBlacklisted == \A m \in Welcomes : ~m.blacklisted

(* ---------------------------------------------------------------------- *)
\* the /setchannellink commands of an admin that carried a link, and the link
\* each left in the chat's config
LinkTasks == {i \in DOMAIN h : h[i].kind = "setchannellink" /\ h[i].arg # <<>>}

\* the link carries a URL scheme: it contains "://"
HasScheme(link) ==
  \E n \in 1..(Len(link) - 2) : SubSeq(link, n, n + 2) = <<":", "/", "/">>

\* C9 as the specification states it: a link without a URL scheme is stored
\* with "https://" prepended ("t.me/x" as "https://t.me/x"), a link with a
\* scheme is stored unchanged.
C9_SchemeRule ==
  \A i \in LinkTasks :
    h[i].cfg.link = IF HasScheme(h[i].arg) THEN h[i].arg
                    ELSE Https \o h[i].arg

\* C9, as the code has it: "https://" is prepended exactly to the links that
\* start with neither "http" nor "t.me"; a link that starts with one of them
\* is stored unchanged ("t.me/x" stays "t.me/x"); and the button of every
\* welcome carries a link in that stored form.
C9_PrefixRule ==
  /\ \A i \in LinkTasks :
       LET arg == h[i].arg
       IN h[i].cfg.link = IF StartsWith(arg, Http) \/ StartsWith(arg, TMe)
                            THEN arg
                            ELSE Https \o arg
  /\ \A m \in Welcomes :
       m.link # <<>> => StartsWith(m.link, Http) \/ StartsWith(m.link, TMe)

\* "t.me/x" was set as the link and a welcome went out with it on its button
C9_Witness ==
  \E i \in LinkTasks, m \in Welcomes :
    /\ h[i].arg = TMe \o <<"/", "x">>
    /\ m.link = h[i].arg

(* ---------------------------------------------------------------------- *)
\* C10: a welcome is sent only while the chat's config has a template text:
\* nothing is sent when it has none, in particular nothing after clearwelcome
\* until setwelcometext is called again.
C10_NoWelcomeWithoutText == \A m \in Welcomes : m.configured

(* ---------------------------------------------------------------------- *)
\* whenever control can pass to another handler: unless the latest write
\* failed, loading the snapshot gives the Document in memory, blacklist
\* included
SnapshotCurrent ==
  ~saveFailed =>
    /\ load_store(disk) = STORE
    /\ Range(load_store(disk).blacklist) = GLOBAL_BLACKLIST

\* a step that changes the Document rewrites the whole snapshot with it
WriteThrough == STORE' # STORE => saveFailed' \/ disk' = Snapshot(STORE')

\* C8: every operation that mutates the Document rewrites the whole snapshot
\* in the same uninterrupted step, so that, when writes succeed, the snapshot
\* equals the Document at every point where another handler can run, and a
\* reload reproduces the state.
C8_WriteThrough == []SnapshotCurrent /\ [][WriteThrough]_vars

\* the process started without a file; user 2 was blacklisted and a welcome
\* text set; the file holds both and a reload finds user 2 blacklisted
C8_Witness ==
  /\ \E i \in DOMAIN h : h[i].kind = "blacklist"
  /\ \E i \in DOMAIN h : h[i].kind = "setwelcometext"
  /\ STORE.welcomes # EmptyMap
  /\ ~saveFailed
  /\ disk = Snapshot(STORE)
  /\ 2 \in Range(load_store(disk).blacklist)
  /\ WelcomeCfg(5).text # ""

(* ---------------------------------------------------------------------- *)
\* the words stored for a chat
WordsOf(c) == Range(Get(STORE.banned_words, c, <<>>))

\* the texts that are matched against them
ProbeTexts == {"this contains BadWord here", "buy SPAM now", "hello all"}

\* word w, lowercased, stands at some position of text t, lowercased
OccursIn(w, t) ==
  LET lw == LowerSeq(CharsOf(w))
      lt == LowerSeq(CharsOf(t))
  IN \E n \in 0..(Len(lt) - Len(lw)) : SubSeq(lt, n + 1, n + Len(lw)) = lw

\* the Document with the banned words of chat c only
OnlyChat(c) ==
  [STORE EXCEPT !.banned_words =
     [x \in (DOMAIN STORE.banned_words) \cap {c} |-> STORE.banned_words[x]]]

\* C11: has_banned_word(chat, text) is true exactly when some word stored for
\* that chat occurs, both lowercased, anywhere inside the text; with
\* "badword" stored the text "this contains BadWord here" matches and without
\* it the text does not; the words of another chat never change the answer.
C11_SubstringMatch ==
  \A c \in Chats, t \in ProbeTexts :
    /\ has_banned_word(STORE, c, t) = (\E w \in WordsOf(c) : OccursIn(w, t))
    /\ "badword" \in WordsOf(c)
         => has_banned_word(STORE, c, "this contains BadWord here")
    /\ "badword" \notin WordsOf(c)
         => ~has_banned_word(STORE, c, "this contains BadWord here")
    /\ has_banned_word(STORE, c, t) = has_banned_word(OnlyChat(c), c, t)

\* "badword" was added to chat 5 and matches there but not in chat 100, where
\* "SPAM" is stored and matches "buy SPAM now"
C11_Witness ==
  /\ \E i \in DOMAIN h : h[i].kind = "addword" /\ h[i].chat = 5
  /\ WordsOf(5) = {"badword"}
  /\ has_banned_word(STORE, 5, "this contains BadWord here")
  /\ ~has_banned_word(STORE, 100, "this contains BadWord here")
  /\ WordsOf(100) = {"SPAM"}
  /\ has_banned_word(STORE, 100, "buy SPAM now")
  /\ ~has_banned_word(STORE, 5, "buy SPAM now")

(* ---------------------------------------------------------------------- *)
\* C12: every text message that is not a command, comes from a user who is
\* neither a bot nor blacklisted, and holds a banned word of its chat, ends
\* in an attempt to delete it.
C12_MatchIsDeleted ==
  \A i \in DOMAIN h :
    h[i].matched /\ ~h[i].blAtStart /\ Terminal(h[i].pc) => h[i].deleted

(* ---------------------------------------------------------------------- *)
\* the commands that are for admins only
AdminKinds ==
  {"warn", "delwarn", "kick", "ban", "unban", "mute", "unmute", "addword",
   "removeword", "setwelcometext", "setmedia", "setchannellink",
   "clearwelcome"}

\* a command whose invoker is_admin refused has ended, having asked nothing of
\* the transport
DeniedInert ==
  \A i \in DOMAIN h :
    h[i].denied =>
      /\ h[i].pc = "done"
      /\ h[i].calls = <<>> /\ h[i].mutes = 0 /\ h[i].sent = {}

\* the step in which a command is refused leaves the Document, the blacklist
\* set and the snapshot file as they are
DeniedStep ==
  \A i \in DOMAIN h' :
    i \notin DOMAIN h /\ h'[i].denied =>
      /\ h'[i].kind \in AdminKinds
      /\ UNCHANGED <<STORE, GLOBAL_BLACKLIST, disk, saveFailed>>

\* C13: when the invoker is not an admin of the chat (also when the lookup
\* of the invoker fails) the admin commands leave the Document unchanged and
\* make no mute, ban or unban call.
C13_DeniedChangesNothing == []DeniedInert /\ [][DeniedStep]_vars

\* a /clearwelcome was refused while the chat has a welcome text
C13_Witness ==
  /\ \E i \in DOMAIN h : h[i].denied /\ h[i].kind = "clearwelcome"
  /\ WelcomeCfg(5).text # ""

(* ---------------------------------------------------------------------- *)
\* the empty value of a field of the Document
EmptyField(k) == IF k = "blacklist" THEN <<>> ELSE EmptyMap

\* what load_store gives for a file: four fields always; all of them empty
\* for a missing or unreadable file; the file's own fields, and empty ones
\* for those it lacks, for a valid snapshot
LoadedFrom(file, S) ==
  /\ DOMAIN S = Fields
  /\ \A k \in Fields :
       S[k] = IF file.state = "ok" /\ k \in DOMAIN file.data
                THEN file.data[k]
                ELSE EmptyField(k)

\* at load, and for any file a restart may find later
LoadTotal ==
  /\ h = <<>> => LoadedFrom(disk, STORE)
  /\ LoadedFrom(disk, load_store(disk))
  /\ DOMAIN STORE = Fields

\* a step whose write of the snapshot fails still carries out its mutation in
\* memory, blacklist set included, and no handler ends by that failure
SaveFailureHarmless ==
  saveFailed' /\ disk' # Snapshot(STORE') /\ STORE' # STORE =>
    /\ GLOBAL_BLACKLIST' = Range(STORE'.blacklist)
    /\ \A i \in DOMAIN h' :
         h'[i].pc = "raised" => i \in DOMAIN h /\ h[i].pc = "raised"
    /\ \E i \in DOMAIN h' : i \notin DOMAIN h \/ h'[i].pc # h[i].pc

\* C14: a failed write of the snapshot is not fatal: the operation completes,
\* the Document and the blacklist set in memory keep the mutation; and
\* load_store gives a Document with all four fields, empty for a missing,
\* unreadable or corrupt file and completed with empty defaults for a valid
\* snapshot that lacks some.
C14_StorageErrorsNonFatal == []LoadTotal /\ [][SaveFailureHarmless]_vars

\* the file was corrupt at start; user 2 was then blacklisted and the write
\* failed: the set and the Document hold user 2, the file does not
C14_Witness ==
  /\ disk = Corrupt /\ saveFailed
  /\ \E i \in DOMAIN h : h[i].kind = "blacklist" /\ h[i].pc = "done"
  /\ STORE = [DefaultStore EXCEPT !.blacklist = <<2>>]
  /\ GLOBAL_BLACKLIST = {2}
  /\ load_store(disk) = DefaultStore

(* ---------------------------------------------------------------------- *)
\* the tasks that are inside a call of the transport or about to call the AI
\* backend
InOutboundCall == {i \in DOMAIN h : ~Terminal(h[i].pc)}

\* C15: the per-user lock is held only for the read-check-update of
\* can_use_ai and is released, on the grant and on the deny path, before the
\* handler calls the AI backend or the transport: no lock is held while a
\* handler is suspended, so no handler waits on a lock whose holder is inside
\* such a call.
C15_NoLockAcrossCalls ==
  /\ held = {}
  /\ \A i \in InOutboundCall : h[i].user \notin held
  /\ held \subseteq locks

\* user 2 was granted and is inside the typing call, a second request of
\* user 2 was denied, and the lock of user 2 exists and is free
C15_Witness ==
  \E i, j \in DOMAIN h :
    /\ h[i].user = 2 /\ h[j].user = 2
    /\ h[i].gate = "granted" /\ h[i].pc = "typing"
    /\ h[j].gate = "denied" /\ h[j].pc = "done"
    /\ 2 \in locks /\ 2 \notin held

(* ---------------------------------------------------------------------- *)
\* the /warn workflows in which add_warn returned a count at the limit
Escalating == {i \in DOMAIN h : h[i].kind = "warn" /\ h[i].count >= WARN_LIMIT}

\* C16: a warn workflow in which add_warn returned a count >= 3 leaves the
\* entry absent when it ends, whether the reply and the mute succeed or fail:
\* if its add is still the latest operation on the entry once it has ended,
\* the count reads 0.
C16_EscalationAlwaysClears ==
  \A i \in Escalating :
    LET k == WarnKey(h[i].chat, h[i].target)
        L == KeyLog(k)
    IN Terminal(h[i].pc) /\ L[Len(L)].task = i /\ L[Len(L)].op = "add"
         => get_warn_count(STORE.warns, k) = 0

(* ---------------------------------------------------------------------- *)
\* the /warn workflows of admins on user 2 in chat 5 (SpecEscalate has no
\* other command)
Warned == {i \in DOMAIN h : h[i].kind = "warn" /\ ~h[i].denied}

\* C17: once N concurrent warn workflows on one (chat, user), started on an
\* absent entry, have all ended without a failed transport call, the mutes
\* issued number N div 3 and the stored count is N mod 3.
C17_OnceMutePerCrossing ==
  (\A i \in DOMAIN h : h[i].pc = "done") =>
    LET N == Cardinality(Warned)
    IN /\ Cardinality({i \in Warned : h[i].mutes > 0}) = N \div 3
       /\ \A i \in Warned : h[i].mutes <= 1
       /\ get_warn_count(STORE.warns, WarnKey(5, 2)) = N % 3

(* ---------------------------------------------------------------------- *)
\* C18: from an empty Document, under any interleaving of warn, delwarn and
\* warns, every stored count is an integer >= 1 (an entry that would drop to
\* 0 or below is deleted) and get_warn_count is always >= 0.
C18_CountsPositive ==
  /\ \A k \in DOMAIN STORE.warns : STORE.warns[k] \in Nat \ {0}
  /\ \A k \in WarnKeys : get_warn_count(STORE.warns, k) \in Nat
  /\ \A i \in DOMAIN h : h[i].count \in Nat
  /\ \A n \in DOMAIN ledger :
       /\ ledger[n].after \in Nat
       /\ ledger[n].present = (ledger[n].after >= 1)

\* a /delwarn took the only warn of user 2 away and deleted the entry, and
\* /warns then read 0
C18_Witness ==
  \E m \in DOMAIN ledger, i \in DOMAIN h :
    /\ ledger[m].op = "remove" /\ ledger[m].before = 1 /\ ~ledger[m].present
    /\ ledger[m].task < i
    /\ h[i].kind = "warns" /\ h[i].pc = "done" /\ h[i].count = 0

(* ---------------------------------------------------------------------- *)
\* the /warns commands whose call of get_target_user has returned
Resolutions == {i \in DOMAIN h : h[i].kind = "warns" /\ h[i].pc = "done"}

\* C19: get_target_user returns the author of the replied-to message whenever
\* the command is a reply, whatever its argument; otherwise, with an
\* argument, the user of the first lookup (by handle, then by numeric id) the
\* transport resolves; None only when there is no reply and there is no
\* argument or no lookup resolved; and a failed lookup never raises.
C19_TargetPrecedence ==
  /\ \A i \in Resolutions :
       LET r == h[i]
       IN /\ r.reply # None => r.target = r.reply /\ r.calls = <<>>
          /\ r.reply = None /\ r.arg = <<>> =>
               r.target = None /\ r.calls = <<>>
          /\ r.reply = None /\ r.arg # <<>> =>
               /\ \A n \in DOMAIN r.calls :
                    r.calls[n].lookup =
                      IF StartsWith(r.arg, <<"@">>) THEN "lookup_handle"
                                                    ELSE "lookup_id"
               /\ \/ /\ r.target = None
                     /\ \A n \in DOMAIN r.calls : ~r.calls[n].found
                  \/ \E n \in DOMAIN r.calls :
                       /\ r.calls[n].found /\ r.target = r.calls[n].user
                       /\ \A m \in 1..(n - 1) : ~r.calls[m].found
          /\ r.target = None =>
               r.reply = None /\ \A n \in DOMAIN r.calls : ~r.calls[n].found
  /\ \A i \in DOMAIN h : h[i].kind = "warns" => h[i].pc # "raised"

\* a reply to user 1 that names user 2 resolved to user 1 without a lookup,
\* and a lookup by handle that failed gave None
C19_Witness ==
  \E i, j \in Resolutions :
    /\ h[i].reply = 1 /\ h[i].arg = <<"2">> /\ h[i].target = 1
    /\ h[j].reply = None /\ h[j].arg = <<"@", "b">> /\ h[j].target = None
    /\ h[j].calls # <<>>

(* ---------------------------------------------------------------------- *)
\* a step of the program in which a task other than i is started or moves
StepBeside(i) ==
  /\ NextLoop
  /\ \E j \in DOMAIN h' : j # i /\ (j \notin DOMAIN h \/ h'[j] # h[j])

\* C20: while the handler of one user's /ask is waiting on the AI backend,
\* the handlers of other events (a /warn, another user's /ask) can take steps:
\* a new update can be taken up, and a suspended handler resumed.
C20_OthersRunDuringAiCall ==
  \A i \in DOMAIN h :
    h[i].pc = "in_ai" =>
      /\ Len(h) < MaxLoopTasks => ENABLED StepBeside(i)
      /\ (\E j \in DOMAIN h : h[j].pc \in {"warned", "muting", "muted"})
           => ENABLED StepBeside(i)

(* ------ the owner commands beside the commands of the chat admins ------ *)
\* the owner commands, and of the admin commands those that write the warn
\* counts, the word lists and the welcome configurations of the Document
NextGuard ==
  \/ BlacklistStart(MaxGuardTasks, ReplyInputs)
  \/ UnblacklistStart(MaxGuardTasks, ReplyInputs)
  \/ WarnStart(MaxGuardTasks, {5}, StoreInputs)
  \/ WarnReplied
  \/ WarnMuted
  \/ WarnCleared
  \/ DelwarnStart(MaxGuardTasks, {5}, StoreInputs)
  \/ AddWordStart(MaxGuardTasks, {5})
  \/ SetTextStart(MaxGuardTasks, {5})
  \/ ClearStart(MaxGuardTasks, {5})

SpecGuard == InitFrom(StoreFiles) /\ [][NextGuard]_vars

(* ------------- the word lists, from an empty Document ------------------ *)
NextWordList ==
  \/ AddWordStart(MaxListTasks, Chats)
  \/ RemoveWordStart(MaxListTasks, Chats)

SpecWordList == InitEmpty /\ [][NextWordList]_vars

(* ---------------------------------------------------------------------- *)
\* an /ask or a mention that was granted by can_use_ai (the user's timestamp
\* was set to its reading of the clock) and returned without a transport
\* failure and without having called the AI backend
GrantSpent(i) ==
  /\ h[i].kind \in {"ask", "mention"}
  /\ h[i].gate = "granted"
  /\ h[i].pc = "done"
  /\ ~h[i].aiCalled

\* C21: a grant of can_use_ai inside ask or mention_ai is followed by the call
\* of the AI backend in the same invocation: no invocation that was granted
\* ends, unless a transport call raised, without having called the backend
\* (so an /ask without arguments, a text that does not address the bot and an
\* empty query leave the user's timestamp alone).
C21_GrantReachesBackend ==
  \A i \in DOMAIN h : ~GrantSpent(i)

(* ---------------------------------------------------------------------- *)
\* task i was started or moved in this step
Moved(i) == i \notin DOMAIN h \/ h'[i] # h[i]

\* a step that changes GLOBAL_BLACKLIST or STORE["blacklist"] is the end of a
\* /blacklist of the owner that adds a user who was not in the set, or of an
\* /unblacklist of the owner that removes a user who was in it
OwnerStep ==
  (GLOBAL_BLACKLIST' # GLOBAL_BLACKLIST \/ STORE'.blacklist # STORE.blacklist)
    => \E i \in DOMAIN h' :
         /\ Moved(i)
         /\ h'[i].kind \in {"blacklist", "unblacklist"}
         /\ h'[i].user = OWNER_ID
         /\ h'[i].pc = "done"
         /\ h'[i].target # None
         /\ h'[i].kind = "blacklist" =>
              /\ h'[i].target \notin GLOBAL_BLACKLIST
              /\ GLOBAL_BLACKLIST' = GLOBAL_BLACKLIST \cup {h'[i].target}
         /\ h'[i].kind = "unblacklist" =>
              /\ h'[i].target \in GLOBAL_BLACKLIST
              /\ GLOBAL_BLACKLIST' = GLOBAL_BLACKLIST \ {h'[i].target}

\* C22: GLOBAL_BLACKLIST and STORE["blacklist"] change only in a blacklist or
\* unblacklist handler invoked by OWNER_ID; the invocations of anyone else,
\* the blacklisting of a user already in the set and the unblacklisting of a
\* user not in it leave both as they are.
C22_OnlyOwnerChangesBlacklist == [][OwnerStep]_vars

\* user 2 has sent /blacklist aimed at user 1 (refused), the owner has
\* blacklisted user 2, who was in the set already, and has unblacklisted user
\* 1, who was not: the set is what the snapshot file gave
C22_Witness ==
  \E i, j, k \in DOMAIN h :
    /\ h[i].kind = "blacklist" /\ h[i].user = 2 /\ h[i].pc = "done"
    /\ h[j].kind = "blacklist" /\ h[j].user = OWNER_ID /\ h[j].target = 2
    /\ h[j].pc = "done"
    /\ h[k].kind = "unblacklist" /\ h[k].user = OWNER_ID /\ h[k].target = 1
    /\ h[k].pc = "done"
    /\ GLOBAL_BLACKLIST = {2} /\ STORE.blacklist = <<2>>

(* ---------------------------------------------------------------------- *)
\* the statuses of a user who is in the chat (a restricted member is one who
\* is muted there)
Present(status) ==
  status \in {"member", "administrator", "creator", "restricted"}

\* the chat-member updates that were answered with a welcome
Greeted ==
  {i \in DOMAIN h : h[i].kind = "welcome_new_member" /\ h[i].sent # {}}

\* C23: welcome_new_member sends a welcome only for a change of status into
\* "member" from a status in which the user was not in the chat; the change of
\* a user who was present (restricted -> member when a mute is lifted,
\* administrator -> member) sends none.
C23_WelcomeOnlyOnJoin ==
  \A i \in Greeted : h[i].arg[2] = "member" /\ ~Present(h[i].arg[1])

(* ---------------------------------------------------------------------- *)
\* STORE["banned_words"] of chat c in the Document S
WordList(S, c) == Get(S.banned_words, c, <<>>)

NoDuplicates(lst) == \A m, n \in DOMAIN lst : lst[m] = lst[n] => m = n

\* w.lower() == w
Lowercase(w) == LowerSeq(CharsOf(w)) = CharsOf(w)

\* every chat's list holds no word twice and only lowercase words
WordListsClean ==
  \A c \in DOMAIN STORE.banned_words :
    /\ NoDuplicates(STORE.banned_words[c])
    /\ \A w \in Range(STORE.banned_words[c]) : Lowercase(w)

\* the step of an /addword or /removeword of an admin with a word: after
\* /removeword the word is not in the chat's list, after /addword it is, and
\* an /addword of a word the list has already leaves the Document and the
\* snapshot file alone
WordStep ==
  \A i \in DOMAIN h' :
    i \notin DOMAIN h /\ ~h'[i].denied /\ h'[i].arg # <<>> =>
      LET w == Lower(h'[i].arg[1])
          old == WordList(STORE, h'[i].chat)
          new == WordList(STORE', h'[i].chat)
      IN /\ h'[i].kind = "removeword" => w \notin Range(new)
         /\ h'[i].kind = "addword" =>
              /\ w \in Range(new)
              /\ w \in Range(old) =>
                   UNCHANGED <<STORE, GLOBAL_BLACKLIST, disk, saveFailed>>

\* C24: from an empty Document, under any interleaving of addword and
\* removeword, each chat's banned-word list holds no word twice and only
\* lowercased words; one removeword of a word leaves it absent from the list,
\* and adding a word the list already has changes nothing and saves nothing.
C24_WordListsClean == []WordListsClean /\ [][WordStep]_vars

\* in chat 5 "SPAM" was added, "spam" was added again and "SPAM" removed
\* once: the list is empty
C24_Witness ==
  \E i, j, k \in DOMAIN h :
    /\ \A n \in {i, j, k} : h[n].chat = 5 /\ ~h[n].denied
    /\ h[i].kind = "addword" /\ h[i].arg = <<"SPAM">>
    /\ h[j].kind = "addword" /\ h[j].arg = <<"spam">>
    /\ h[k].kind = "removeword" /\ h[k].arg = <<"SPAM">>
    /\ WordList(STORE, 5) = <<>>
    /\ 5 \in DOMAIN STORE.banned_words

====
